---- MODULE Spec2Model ----
(***************************************************************************)
(* Model of the PrivatePoll contract (src/contracts/PrivatePoll.sol): the  *)
(* poll registry and response ledger.  Every external call is one atomic   *)
(* transaction: it either applies all of its writes or reverts and leaves  *)
(* the storage untouched.  The only thing a reverted call leaves behind is *)
(* the receipt of the call, kept in the variable last.                     *)
(*                                                                         *)
(* The second part models the browser client (src/app/layout.tsx): the     *)
(* connected account, the browser's localStorage and the poll lists the    *)
(* page renders.  Spec is the contract called by arbitrary callers;        *)
(* ClientSpec is the contract called through one browser.                  *)
(***************************************************************************)
EXTENDS Integers, Sequences, FiniteSets, TLC

\* ------------------------------------------------------------------ bounds
\* Cap on pollCounter (uint256 in the source).
MaxPolls == 2
\* Number of distinct non-zero caller addresses.
NumAddr == 2
\* Last value of block.timestamp explored.
MaxTime == 3
\* Largest value offered for _minValue and _maxValue.
MaxValue == 1
\* Number of distinct external ciphertext handles.
NumHandles == 2

\* Largest _limit passed to getActivePolls.
MaxLimit == 3

\* Cap on the number of successful mutating calls (the length of the event
\* log).
MaxEvents == 4

\* address(0): the creator field of a poll slot that was never written.
ZeroAddress == 0
\* block.timestamp of the first block explored.
GenesisTime == 1

Addr == 1..NumAddr
\* Poll ids a caller may pass: every created id and one id beyond the cap.
PollIds == 0..MaxPolls
Questions == {"", "q"}
Values == 0..MaxValue
Times == GenesisTime..MaxTime
Handles == 1..NumHandles
\* An input proof: the proof the encryption provider made for the handle, or
\* the empty byte string.
Proofs == {"", "zkpok"}

VARIABLES
    polls,          \* mapping(uint256 => Poll)
    pollResponses,  \* mapping(uint256 => EncryptedResponse[])
    hasResponded,   \* mapping(uint256 => mapping(address => bool))
    userPolls,      \* mapping(address => uint256[])
    userResponses,  \* mapping(address => uint256[])
    pollCounter,    \* uint256
    timestamp,      \* block.timestamp
    events,         \* the event log of the contract
    allowed,        \* FHE access control list: <<handle, address>> pairs
    last,           \* receipt of the last external call
    address,        \* client: the connected account (useAccount)
    localStorage,   \* client: the browser's localStorage, by poll id of the key
    myPolls,        \* client: useState<Poll[]>, the MY_POLLS list
    activePolls,    \* client: useState<Poll[]>, the BROWSE list
    myResponses     \* client: useState<Poll[]>, the MY_RESPONSES list

storage == <<polls, pollResponses, hasResponded, userPolls, userResponses,
             pollCounter, events, allowed>>
\* The state of the browser client.
client == <<address, localStorage, myPolls, activePolls, myResponses>>
vars == <<polls, pollResponses, hasResponded, userPolls, userResponses,
          pollCounter, timestamp, events, allowed, last, address,
          localStorage, myPolls, activePolls, myResponses>>

\* ------------------------------------------------------------------- types
\* The value of a storage slot of type Poll that was never written.
EmptyPoll ==
    [creator |-> ZeroAddress, question |-> "", minValue |-> 0, maxValue |-> 0,
     endTime |-> 0, createdAt |-> 0, responseCount |-> 0, isActive |-> FALSE]

EncryptedResponse(respondent, value, submittedAt) ==
    [respondent |-> respondent, encryptedValue |-> value,
     submittedAt |-> submittedAt]

PollCreated(pollId, creator, question, minValue, maxValue, endTime) ==
    [name |-> "PollCreated", pollId |-> pollId, who |-> creator,
     question |-> question, minValue |-> minValue, maxValue |-> maxValue,
     endTime |-> endTime]

\* Faulty variant of ResponseSubmitted: the event carries pollCounter as its
\* id.
ResponseSubmitted_CounterId(pollId, respondent) ==
    [name |-> "ResponseSubmitted", pollId |-> pollCounter, who |-> respondent]

ResponseSubmitted(pollId, respondent) ==
    [name |-> "ResponseSubmitted", pollId |-> pollId, who |-> respondent]

\* Faulty variant of PollClosed: the event carries pollCounter as its id.
PollClosed_CounterId(pollId, creator) ==
    [name |-> "PollClosed", pollId |-> pollCounter, who |-> creator]

PollClosed(pollId, creator) ==
    [name |-> "PollClosed", pollId |-> pollId, who |-> creator]

\* The receipt of a call: the function called and its outcome, err being ""
\* on success and the revert string otherwise.
Receipt(op, err) == [op |-> op, err |-> err]

Init ==
    /\ polls = [p \in PollIds |-> EmptyPoll]
    /\ pollResponses = [p \in PollIds |-> <<>>]
    /\ hasResponded = [p \in PollIds |-> [a \in Addr |-> FALSE]]
    /\ userPolls = [a \in Addr |-> <<>>]
    /\ userResponses = [a \in Addr |-> <<>>]
    /\ pollCounter = 0
    /\ timestamp = GenesisTime
    /\ events = <<>>
    /\ allowed = {}
    /\ last = Receipt("constructor", "")
    /\ address = ZeroAddress
    /\ localStorage = <<>>
    /\ myPolls = <<>>
    /\ activePolls = <<>>
    /\ myResponses = <<>>

\* Faulty variant of Revert: an increment of pollCounter made before the
\* failing check is not rolled back.
Revert_KeepsCounter(op, err) ==
    /\ last' = Receipt(op, err)
    /\ pollCounter' = pollCounter + 1
    /\ UNCHANGED <<polls, pollResponses, hasResponded, userPolls,
                   userResponses, events, allowed, timestamp>>

\* A reverted call: the storage is rolled back, only the receipt remains.
Revert(op, err) ==
    /\ last' = Receipt(op, err)
    /\ UNCHANGED <<storage, timestamp>>

\* -------------------------------------------------------------- createPoll
\* Faulty variant of CreateError: an endTime equal to block.timestamp passes.
CreateError_AllowNow(question, minValue, maxValue, endTime) ==
    IF ~(Len(question) > 0) THEN "Question cannot be empty"
    ELSE IF ~(minValue < maxValue) THEN "Min value must be less than max value"
    ELSE IF ~(endTime >= timestamp) THEN "End time must be in the future"
    ELSE ""

\* Faulty variant of CreateError: the check of the range is missing.
CreateError_NoRangeCheck(question, minValue, maxValue, endTime) ==
    IF ~(Len(question) > 0) THEN "Question cannot be empty"
    ELSE IF ~(endTime > timestamp) THEN "End time must be in the future"
    ELSE ""

\* The three require statements of createPoll, in source order.
CreateError(question, minValue, maxValue, endTime) ==
    IF ~(Len(question) > 0) THEN "Question cannot be empty"
    ELSE IF ~(minValue < maxValue) THEN "Min value must be less than max value"
    ELSE IF ~(endTime > timestamp) THEN "End time must be in the future"
    ELSE ""

NewPoll(sender, question, minValue, maxValue, endTime) ==
    [creator |-> sender, question |-> question, minValue |-> minValue,
     maxValue |-> maxValue, endTime |-> endTime, createdAt |-> timestamp,
     responseCount |-> 0, isActive |-> TRUE]

\* Faulty variant of NextCounter: the increment is forgotten.
NextCounter_Stuck(counter) == counter

\* Faulty variant of NextCounter: an id is skipped.
NextCounter_Skip(counter) == counter + 2

\* pollCounter++
NextCounter(counter) == counter + 1

\* Faulty variant of IndexPoll: the id is put in front of the list.
IndexPoll_Prepend(list, pollId) == <<pollId>> \o list

\* Faulty variant of IndexPoll: the id pushed is the one read after the
\* increment of pollCounter.
IndexPoll_NextId(list, pollId) == Append(list, pollId + 1)

\* userPolls[msg.sender].push(pollId)
IndexPoll(list, pollId) == Append(list, pollId)

createPoll(sender, question, minValue, maxValue, endTime) ==
    LET err == CreateError(question, minValue, maxValue, endTime)
        pollId == pollCounter
    IN  IF err # ""
        THEN Revert("createPoll", err)
        ELSE /\ pollCounter < MaxPolls
             /\ Len(events) < MaxEvents
             /\ pollCounter' = NextCounter(pollCounter)
             /\ polls' = [polls EXCEPT ![pollId] =
                    NewPoll(sender, question, minValue, maxValue, endTime)]
             /\ userPolls' = [userPolls EXCEPT ![sender] =
                    IndexPoll(@, pollId)]
             /\ events' = Append(events, PollCreated(pollId, sender, question,
                                     minValue, maxValue, endTime))
             /\ last' = Receipt("createPoll", "")
             /\ UNCHANGED <<pollResponses, hasResponded, userResponses,
                            allowed, timestamp>>

\* ---------------------------------------------------------- submitResponse
\* FHE.fromExternal: verifies the input proof of the external handle; the
\* call reverts when the proof does not verify, as the empty proof does not.
ProofVerifies(encryptedValue, inputProof) ==
    encryptedValue \in Handles /\ Len(inputProof) > 0

\* Faulty variant of SubmitError: the duplicate check runs before the activity check.
SubmitError_DupFirst(sender, pollId, encryptedValue, inputProof) ==
    LET poll == polls[pollId]
    IN  IF ~(poll.creator # ZeroAddress) THEN "Poll does not exist"
        ELSE IF hasResponded[pollId][sender]
             THEN "You have already responded to this poll"
        ELSE IF ~poll.isActive THEN "Poll is not active"
        ELSE IF ~(timestamp <= poll.endTime) THEN "Poll has ended"
        ELSE IF ~ProofVerifies(encryptedValue, inputProof)
             THEN "Invalid input proof"
        ELSE ""

\* Faulty variant of SubmitError: the deadline itself is already too late.
SubmitError_StrictEnd(sender, pollId, encryptedValue, inputProof) ==
    LET poll == polls[pollId]
    IN  IF ~(poll.creator # ZeroAddress) THEN "Poll does not exist"
        ELSE IF ~poll.isActive THEN "Poll is not active"
        ELSE IF ~(timestamp < poll.endTime) THEN "Poll has ended"
        ELSE IF hasResponded[pollId][sender]
             THEN "You have already responded to this poll"
        ELSE IF ~ProofVerifies(encryptedValue, inputProof)
             THEN "Invalid input proof"
        ELSE ""

\* Faulty variant of SubmitError: the activity check is missing.
SubmitError_NoActiveCheck(sender, pollId, encryptedValue, inputProof) ==
    LET poll == polls[pollId]
    IN  IF ~(poll.creator # ZeroAddress) THEN "Poll does not exist"
        ELSE IF ~(timestamp <= poll.endTime) THEN "Poll has ended"
        ELSE IF hasResponded[pollId][sender]
             THEN "You have already responded to this poll"
        ELSE IF ~ProofVerifies(encryptedValue, inputProof)
             THEN "Invalid input proof"
        ELSE ""

\* Faulty variant of SubmitError: the duplicate check is missing.
SubmitError_NoDupCheck(sender, pollId, encryptedValue, inputProof) ==
    LET poll == polls[pollId]
    IN  IF ~(poll.creator # ZeroAddress) THEN "Poll does not exist"
        ELSE IF ~poll.isActive THEN "Poll is not active"
        ELSE IF ~(timestamp <= poll.endTime) THEN "Poll has ended"
        ELSE IF ~ProofVerifies(encryptedValue, inputProof)
             THEN "Invalid input proof"
        ELSE ""

\* Faulty variant of SubmitError: the check of the endTime is missing.
SubmitError_NoExpiryCheck(sender, pollId, encryptedValue, inputProof) ==
    LET poll == polls[pollId]
    IN  IF ~(poll.creator # ZeroAddress) THEN "Poll does not exist"
        ELSE IF ~poll.isActive THEN "Poll is not active"
        ELSE IF hasResponded[pollId][sender]
             THEN "You have already responded to this poll"
        ELSE IF ~ProofVerifies(encryptedValue, inputProof)
             THEN "Invalid input proof"
        ELSE ""

\* Faulty variant of SubmitError: the creator may not respond to the poll.
SubmitError_NoSelfResponse(sender, pollId, encryptedValue, inputProof) ==
    LET poll == polls[pollId]
    IN  IF ~(poll.creator # ZeroAddress) THEN "Poll does not exist"
        ELSE IF ~poll.isActive THEN "Poll is not active"
        ELSE IF ~(timestamp <= poll.endTime) THEN "Poll has ended"
        ELSE IF hasResponded[pollId][sender]
             THEN "You have already responded to this poll"
        ELSE IF poll.creator = sender
             THEN "Creator cannot respond to own poll"
        ELSE IF ~ProofVerifies(encryptedValue, inputProof)
             THEN "Invalid input proof"
        ELSE ""

\* Faulty variant of SubmitError: the contract reads the payload as a number
\* and compares it with the range of the poll.
SubmitError_RangeCheck(sender, pollId, encryptedValue, inputProof) ==
    LET poll == polls[pollId]
    IN  IF ~(poll.creator # ZeroAddress) THEN "Poll does not exist"
        ELSE IF ~poll.isActive THEN "Poll is not active"
        ELSE IF ~(timestamp <= poll.endTime) THEN "Poll has ended"
        ELSE IF hasResponded[pollId][sender]
             THEN "You have already responded to this poll"
        ELSE IF ~(poll.minValue <= encryptedValue
                    /\ encryptedValue <= poll.maxValue)
             THEN "Value out of range"
        ELSE IF ~ProofVerifies(encryptedValue, inputProof)
             THEN "Invalid input proof"
        ELSE ""

\* The four require statements of submitResponse followed by the proof
\* verification of FHE.fromExternal, in source order.
SubmitError(sender, pollId, encryptedValue, inputProof) ==
    LET poll == polls[pollId]
    IN  IF ~(poll.creator # ZeroAddress) THEN "Poll does not exist"
        ELSE IF ~poll.isActive THEN "Poll is not active"
        ELSE IF ~(timestamp <= poll.endTime) THEN "Poll has ended"
        ELSE IF hasResponded[pollId][sender]
             THEN "You have already responded to this poll"
        ELSE IF ~ProofVerifies(encryptedValue, inputProof)
             THEN "Invalid input proof"
        ELSE ""

\* Faulty variant of FHEallow: the grant is dropped.
FHEallow_Dropped(acl, value, account) == acl

\* FHE.allow(value, account): account may from now on decrypt the handle.
FHEallow(acl, value, account) == acl \cup {<<value, account>>}

\* Faulty variant of PushResponse: the response is put in front of the list.
PushResponse_Front(responses, sender, value) ==
    <<EncryptedResponse(sender, value, timestamp)>> \o responses

\* pollResponses[_pollId].push(EncryptedResponse({...}))
PushResponse(responses, sender, value) ==
    Append(responses, EncryptedResponse(sender, value, timestamp))

\* Faulty variant of MarkResponded: the flag is never set.
MarkResponded_Skip(flags, sender) == flags

\* Faulty variant of MarkResponded: the flag is set for every address.
MarkResponded_All(flags, sender) == [a \in DOMAIN flags |-> TRUE]

\* hasResponded[_pollId][msg.sender] = true
MarkResponded(flags, sender) == [flags EXCEPT ![sender] = TRUE]

\* Faulty variant of IncrementCount: the counter is left alone.
IncrementCount_Skip(poll) == poll

\* poll.responseCount++
IncrementCount(poll) == [poll EXCEPT !.responseCount = @ + 1]

\* Faulty variant of IndexResponse: the id is put in front of the list.
IndexResponse_Prepend(list, pollId) ==
    LET alreadyInList == \E i \in 1..Len(list) : list[i] = pollId
    IN  IF ~alreadyInList THEN <<pollId>> \o list ELSE list

\* The alreadyInList scan and the conditional push on userResponses.
IndexResponse(list, pollId) ==
    LET alreadyInList == \E i \in 1..Len(list) : list[i] = pollId
    IN  IF ~alreadyInList THEN Append(list, pollId) ELSE list

submitResponse(sender, pollId, encryptedValue, inputProof) ==
    LET err == SubmitError(sender, pollId, encryptedValue, inputProof)
        poll == polls[pollId]
        value == encryptedValue
    IN  IF err # ""
        THEN Revert("submitResponse", err)
        ELSE /\ Len(events) < MaxEvents
             /\ allowed' = FHEallow(FHEallow(allowed, value, sender),
                                 value, poll.creator)
             /\ pollResponses' = [pollResponses EXCEPT ![pollId] =
                    PushResponse(@, sender, value)]
             /\ hasResponded' = [hasResponded EXCEPT ![pollId] =
                    MarkResponded(@, sender)]
             /\ polls' = [polls EXCEPT ![pollId] = IncrementCount(@)]
             /\ userResponses' = [userResponses EXCEPT ![sender] =
                    IndexResponse(@, pollId)]
             /\ events' = Append(events, ResponseSubmitted(pollId, sender))
             /\ last' = Receipt("submitResponse", "")
             /\ UNCHANGED <<userPolls, pollCounter, timestamp>>

\* --------------------------------------------------------------- closePoll
\* Faulty variant of CloseError: anyone may close.
CloseError_NoOwnerCheck(sender, pollId) ==
    LET poll == polls[pollId]
    IN  IF ~poll.isActive THEN "Poll is already closed" ELSE ""

\* Faulty variant of CloseError: the two checks are swapped.
CloseError_ActiveFirst(sender, pollId) ==
    LET poll == polls[pollId]
    IN  IF ~poll.isActive THEN "Poll is already closed"
        ELSE IF ~(poll.creator = sender) THEN "Only creator can close poll"
        ELSE ""

\* Faulty variant of CloseError: a closed poll can be closed again.
CloseError_NoActiveCheck(sender, pollId) ==
    LET poll == polls[pollId]
    IN  IF ~(poll.creator = sender) THEN "Only creator can close poll" ELSE ""

\* Faulty variant of CloseError: a poll past its endTime cannot be closed.
CloseError_ExpiredFails(sender, pollId) ==
    LET poll == polls[pollId]
    IN  IF ~(poll.creator = sender) THEN "Only creator can close poll"
        ELSE IF ~poll.isActive THEN "Poll is already closed"
        ELSE IF ~(timestamp <= poll.endTime) THEN "Poll has ended"
        ELSE ""

\* The two require statements of closePoll, in source order.
CloseError(sender, pollId) ==
    LET poll == polls[pollId]
    IN  IF ~(poll.creator = sender) THEN "Only creator can close poll"
        ELSE IF ~poll.isActive THEN "Poll is already closed"
        ELSE ""

\* Faulty variant of Deactivate: the response counter is reset as well.
Deactivate_ResetsCount(poll) ==
    [poll EXCEPT !.isActive = FALSE, !.responseCount = 0]

\* Faulty variant of Deactivate: the poll is deleted.
Deactivate_Deletes(poll) == EmptyPoll

\* poll.isActive = false
Deactivate(poll) == [poll EXCEPT !.isActive = FALSE]

closePoll(sender, pollId) ==
    LET err == CloseError(sender, pollId)
    IN  IF err # ""
        THEN Revert("closePoll", err)
        ELSE /\ Len(events) < MaxEvents
             /\ polls' = [polls EXCEPT ![pollId] = Deactivate(@)]
             /\ events' = Append(events, PollClosed(pollId, sender))
             /\ last' = Receipt("closePoll", "")
             /\ UNCHANGED <<pollResponses, hasResponded, userPolls,
                            userResponses, pollCounter, allowed, timestamp>>

\* ------------------------------------------------------------------- views
\* The result of a view call that returned a value.
Returned(value) == [err |-> "", value |-> value]

\* The result of a view call that reverted.
Reverted(err) == [err |-> err]

getPoll(pollId) ==
    LET poll == polls[pollId]
    IN  IF ~(poll.creator # ZeroAddress)
        THEN Reverted("Poll does not exist")
        ELSE Returned(poll)

\* Faulty variant of getPollResponses: the existence check is missing.
getPollResponses_NoCheck(pollId) == Returned(pollResponses[pollId])

getPollResponses(pollId) ==
    IF ~(polls[pollId].creator # ZeroAddress)
    THEN Reverted("Poll does not exist")
    ELSE Returned(pollResponses[pollId])

getResponseCount(pollId) == polls[pollId].responseCount

getUserPolls(user) == userPolls[user]

getUserResponses(user) == userResponses[user]

checkIfResponded(pollId, user) == hasResponded[pollId][user]

\* Faulty variant of IsListed: a closed poll is still listed.
IsListed_IgnoreClosed(poll) ==
    poll.creator # ZeroAddress /\ timestamp <= poll.endTime

\* The condition under which getActivePolls selects a poll.
IsListed(poll) ==
    /\ poll.creator # ZeroAddress
    /\ poll.isActive
    /\ timestamp <= poll.endTime

\* The first loop of getActivePolls, from index i downwards: the array
\* activePolls (of length _limit, zero-initialised) and the count of the
\* entries filled so far.
RECURSIVE ScanPolls(_, _, _, _)
ScanPolls(i, limit, active, count) ==
    IF ~(i > 0 /\ count < limit)
    THEN [activePolls |-> active, count |-> count]
    ELSE LET pollId == i - 1
             poll == polls[pollId]
         IN  IF IsListed(poll)
             THEN ScanPolls(i - 1, limit,
                            [active EXCEPT ![count + 1] = pollId],
                            count + 1)
             ELSE ScanPolls(i - 1, limit, active, count)

\* Faulty variant of getActivePolls: the array is returned untrimmed.
getActivePolls_NoTrim(limit) ==
    ScanPolls(pollCounter, limit, [k \in 1..limit |-> 0], 0).activePolls

\* getActivePolls: the scan, then the copy of the first count entries into
\* the result array.
getActivePolls(limit) ==
    LET scan == ScanPolls(pollCounter, limit, [k \in 1..limit |-> 0], 0)
    IN  [k \in 1..scan.count |-> scan.activePolls[k]]

\* -------------------------------------------------------------------- time
\* Faulty variant of NextBlock: the clock may also go backwards.
NextBlock_AnyTime ==
    /\ \E t \in Times : t # timestamp /\ timestamp' = t
    /\ UNCHANGED <<storage, last, client>>

\* A later block: block.timestamp never decreases.
NextBlock ==
    /\ timestamp < MaxTime
    /\ timestamp' = timestamp + 1
    /\ UNCHANGED <<storage, last, client>>

CreateStep ==
    \E sender \in Addr, question \in Questions, minValue \in Values,
       maxValue \in Values, endTime \in Times :
        /\ createPoll(sender, question, minValue, maxValue, endTime)
        /\ UNCHANGED client

SubmitStep ==
    \E sender \in Addr, pollId \in PollIds, encryptedValue \in Handles,
       inputProof \in Proofs :
        /\ submitResponse(sender, pollId, encryptedValue, inputProof)
        /\ UNCHANGED client

CloseStep ==
    \E sender \in Addr, pollId \in PollIds :
        closePoll(sender, pollId) /\ UNCHANGED client

Next == CreateStep \/ SubmitStep \/ CloseStep \/ NextBlock

Spec == Init /\ [][Next]_vars

\* -------------------------------------------------------------- view calls
\* Faulty variant of View: the call counts itself in pollCounter.
View_CountsCalls(op, result) ==
    /\ last' = Receipt(op, result.err)
    /\ pollCounter' = (pollCounter + 1) % (MaxPolls + 1)
    /\ UNCHANGED <<polls, pollResponses, hasResponded, userPolls,
                   userResponses, events, allowed, timestamp>>

\* A call of an external view function: it returns or reverts, which the
\* receipt records, and writes nothing.
View(op, result) ==
    /\ last' = Receipt(op, result.err)
    /\ UNCHANGED <<storage, timestamp>>

QueryStep ==
    /\ \/ \E pollId \in PollIds : View("getPoll", getPoll(pollId))
       \/ \E pollId \in PollIds :
              View("getPollResponses", getPollResponses(pollId))
       \/ \E pollId \in PollIds :
              View("getResponseCount", Returned(getResponseCount(pollId)))
       \/ \E limit \in 0..MaxLimit :
              View("getActivePolls", Returned(getActivePolls(limit)))
       \/ \E user \in Addr : View("getUserPolls", Returned(getUserPolls(user)))
       \/ \E user \in Addr :
              View("getUserResponses", Returned(getUserResponses(user)))
       \/ \E pollId \in PollIds, user \in Addr :
              View("checkIfResponded",
                   Returned(checkIfResponded(pollId, user)))
    /\ UNCHANGED client

\* The contract with the view functions called between the mutating calls.
QuerySpec == Init /\ [][Next \/ QueryStep]_vars

\* ---------------------------------------------------------- browser client
\* The JavaScript value undefined of an optional number.
Undefined == -1
\* The limit the client passes to getActivePolls.
ActivePollsLimit == 50

\* The numbers a user may type into the response modal: every value a poll
\* range can hold and one above.
Inputs == 0..MaxValue + 1

\* The decimal numerals of the numbers the client stores.
Decimal == <<"0", "1", "2", "3">>

\* value.toString()
toString(value) == Decimal[value + 1]

\* parseInt(stored), for a string written by toString.
parseInt(stored) == (CHOOSE k \in 1..Len(Decimal) : Decimal[k] = stored) - 1

\* inputBuilder.add32(value) and encrypt(): the handle the encryption
\* provider issues for a plaintext; different plaintexts get different
\* handles.
Encrypt(value) == value + 1

\* The plaintext behind a handle.
Decrypt(handle) == handle - 1

\* localStorage.setItem(`poll_response_${pollId}`, value.toString())
storeResponse(store, pollId, value) ==
    [k \in DOMAIN store \cup {pollId} |->
        IF k = pollId THEN toString(value) ELSE store[k]]

\* localStorage.getItem(`poll_response_${pollId}`), parsed; undefined when
\* the key is absent or holds the empty string.
getStoredResponse(pollId) ==
    IF pollId \in DOMAIN localStorage /\ localStorage[pollId] # ""
    THEN parseInt(localStorage[pollId])
    ELSE Undefined

\* polls.reverse()
Reverse(list) == [i \in 1..Len(list) |-> list[Len(list) + 1 - i]]

\* loadMyPolls: the list it passes to setMyPolls.
loadMyPolls ==
    LET pollIds == getUserPolls(address)
    IN  Reverse([i \in 1..Len(pollIds) |->
            [id |-> pollIds[i], poll |-> getPoll(pollIds[i]).value]])

\* loadActivePolls: the list it passes to setActivePolls.
loadActivePolls ==
    LET pollIds == getActivePolls(ActivePollsLimit)
    IN  [i \in 1..Len(pollIds) |->
            [id |-> pollIds[i], poll |-> getPoll(pollIds[i]).value,
             hasResponded |-> checkIfResponded(pollIds[i], address),
             myResponse |-> getStoredResponse(pollIds[i])]]

\* loadMyResponses: the list it passes to setMyResponses.
loadMyResponses ==
    LET pollIds == getUserResponses(address)
    IN  Reverse([i \in 1..Len(pollIds) |->
            [id |-> pollIds[i], poll |-> getPoll(pollIds[i]).value,
             hasResponded |-> TRUE,
             myResponse |-> getStoredResponse(pollIds[i])]])

\* The wallet connects an account or switches to another one: the effect on
\* [isConnected, address] reloads the three lists.
Connect(account) ==
    /\ account # address
    /\ address' = account
    /\ UNCHANGED <<storage, timestamp, last, localStorage>>
    /\ myPolls' = loadMyPolls'
    /\ activePolls' = loadActivePolls'
    /\ myResponses' = loadMyResponses'

\* The client's createPoll: its own checks of the form, the contract call,
\* and the refresh of two lists when the transaction succeeded.
clientCreatePoll(question, min, max, endTimestamp) ==
    /\ address # ZeroAddress
    /\ IF question = "" \/ min >= max \/ endTimestamp <= timestamp
       THEN UNCHANGED vars
       ELSE /\ createPoll(address, question, min, max, endTimestamp)
            /\ UNCHANGED <<address, localStorage, myResponses>>
            /\ IF last'.err = ""
               THEN /\ myPolls' = loadMyPolls'
                    /\ activePolls' = loadActivePolls'
               ELSE UNCHANGED <<myPolls, activePolls>>

\* The client's submitResponse for an entry of the BROWSE list: its own
\* checks, the encryption, the contract call, and on success the local copy
\* of the value and the refresh of two lists.
clientSubmitResponse(poll, value) ==
    /\ address # ZeroAddress
    /\ IF \/ poll.hasResponded
          \/ value < poll.poll.minValue
          \/ value > poll.poll.maxValue
       THEN UNCHANGED vars
       ELSE /\ submitResponse(address, poll.id, Encrypt(value), "zkpok")
            /\ UNCHANGED <<address, myPolls>>
            /\ IF last'.err = ""
               THEN /\ localStorage' = storeResponse(localStorage, poll.id,
                                                      value)
                    /\ activePolls' = loadActivePolls'
                    /\ myResponses' = loadMyResponses'
               ELSE UNCHANGED <<localStorage, activePolls, myResponses>>

\* The client's closePoll: the contract call and the refresh of two lists
\* when the transaction succeeded.
clientClosePoll(pollId) ==
    /\ address # ZeroAddress
    /\ closePoll(address, pollId)
    /\ UNCHANGED <<address, localStorage, myResponses>>
    /\ IF last'.err = ""
       THEN /\ myPolls' = loadMyPolls'
            /\ activePolls' = loadActivePolls'
       ELSE UNCHANGED <<myPolls, activePolls>>

ConnectStep == \E account \in Addr : Connect(account)

ClientCreateStep ==
    \E question \in Questions, min \in Values, max \in Values,
       endTimestamp \in Times :
        clientCreatePoll(question, min, max, endTimestamp)

\* The Respond button is rendered for the entries the account has not
\* responded to.
ClientSubmitStep ==
    \E i \in 1..Len(activePolls), value \in Inputs :
        /\ ~activePolls[i].hasResponded
        /\ clientSubmitResponse(activePolls[i], value)

\* The Close button is rendered for the active entries of the MY_POLLS list.
ClientCloseStep ==
    \E i \in 1..Len(myPolls) :
        /\ myPolls[i].poll.isActive
        /\ clientClosePoll(myPolls[i].id)

ClientNext ==
    \/ ConnectStep
    \/ ClientCreateStep
    \/ ClientSubmitStep
    \/ ClientCloseStep
    \/ NextBlock

\* The contract with every call made through one browser.
ClientSpec == Init /\ [][ClientNext]_vars

\* ============================================================== properties
\* The poll slot was written by createPoll.
Exists(p) == polls[p].creator # ZeroAddress

\* Number of entries of pollResponses[p] whose respondent is r.
ResponsesBy(p, r) ==
    Cardinality({i \in 1..Len(pollResponses[p]) :
                    pollResponses[p][i].respondent = r})

\* A closePoll(p) call has succeeded: its PollClosed event is in the log.
WasClosed(p) ==
    \E i \in 1..Len(events) :
        events[i].name = "PollClosed" /\ events[i].pollId = p

\* C1: in every reachable state the stored responseCount of every poll equals
\* the length of its response list.
C1_CountMatchesResponses ==
    \A p \in PollIds : getResponseCount(p) = Len(pollResponses[p])

\* A poll that was created holds two responses and one that holds none exists.
C1_Witness ==
    /\ \E p \in PollIds : Exists(p) /\ Len(pollResponses[p]) = 2
    /\ \E p \in PollIds : Exists(p) /\ Len(pollResponses[p]) = 0

\* C2: in every reachable state a poll's response list holds at most one
\* response of any identity.
C2_AtMostOneResponse ==
    \A p \in PollIds, r \in Addr : ResponsesBy(p, r) <= 1

\* A repeated submitResponse of a respondent has just been rejected.
C2_Witness ==
    /\ last = Receipt("submitResponse", "You have already responded to this poll")
    /\ \E p \in PollIds, r \in Addr : ResponsesBy(p, r) = 1

\* C3: in every reachable state hasResponded[p][r] is true exactly when the
\* response list of p holds a response of r.
C3_FlagAgreesWithResponses ==
    \A p \in PollIds, r \in Addr :
        checkIfResponded(p, r) <=> ResponsesBy(p, r) >= 1

\* One identity has responded to a poll and another has not.
C3_Witness ==
    \E p \in PollIds, r1 \in Addr, r2 \in Addr :
        /\ checkIfResponded(p, r1) /\ ResponsesBy(p, r1) = 1
        /\ ~checkIfResponded(p, r2) /\ ResponsesBy(p, r2) = 0
        /\ last = Receipt("submitResponse", "")

\* C4: isActive is true when a poll is created, and a poll that exists and is
\* not active is not active after any step: Closed is terminal.
C4_ClosedIsTerminal ==
    [][\A p \in PollIds :
          /\ (~Exists(p) /\ Exists(p)') => polls'[p].isActive
          /\ (Exists(p) /\ ~polls[p].isActive) => ~polls'[p].isActive]_vars

\* A poll was closed and another poll was created after that.
C4_Witness ==
    /\ last = Receipt("createPoll", "")
    /\ \E p \in PollIds, q \in PollIds :
          /\ p < q /\ Exists(p) /\ Exists(q)
          /\ ~polls[p].isActive /\ polls[q].isActive /\ WasClosed(p)

\* C5 as stated: after closePoll(p) has succeeded, every closePoll(p) call of
\* any caller fails with "Poll is already closed" and changes no storage.
C5_Original ==
    [][\A s \in Addr, p \in PollIds :
          (closePoll(s, p) /\ WasClosed(p)) =>
              /\ last'.err = "Poll is already closed"
              /\ UNCHANGED storage]_vars

\* C5 amended: after closePoll(p) has succeeded, every closePoll(p) call fails
\* and changes no storage; the failure is "Poll is already closed" when the
\* caller is the creator and "Only creator can close poll" otherwise.
C5_SecondCloseFails ==
    [][\A s \in Addr, p \in PollIds :
          (closePoll(s, p) /\ WasClosed(p)) =>
              /\ last'.err = IF s = polls[p].creator
                             THEN "Poll is already closed"
                             ELSE "Only creator can close poll"
              /\ UNCHANGED storage]_vars

\* The creator's second closePoll has just been rejected.
C5_Witness ==
    /\ last = Receipt("closePoll", "Poll is already closed")
    /\ \E p \in PollIds : WasClosed(p)

\* C6 as stated: closePoll on an id that was never created fails with a
\* failure that is neither the authorization failure nor the already-closed
\* failure, and changes no storage.
C6_Original ==
    [][\A s \in Addr, p \in PollIds :
          (closePoll(s, p) /\ ~Exists(p)) =>
              /\ last'.err \notin {"", "Only creator can close poll",
                                   "Poll is already closed"}
              /\ UNCHANGED storage]_vars

\* C6 amended: closePoll on an id that was never created fails with "Only
\* creator can close poll", the failure a non-creator gets, and changes no
\* storage.
C6_CloseUnknownFails ==
    [][\A s \in Addr, p \in PollIds :
          (closePoll(s, p) /\ ~Exists(p)) =>
              /\ last'.err = "Only creator can close poll"
              /\ UNCHANGED storage]_vars

\* closePoll has just been rejected while no poll exists at all.
C6_Witness ==
    /\ last = Receipt("closePoll", "Only creator can close poll")
    /\ pollCounter = 0
    /\ \A p \in PollIds : ~Exists(p)

\* C7: closePoll on an existing active poll by anyone but its creator fails
\* with "Only creator can close poll" and the poll stays active; every step
\* that takes isActive of an existing poll to false is a successful closePoll
\* whose PollClosed event names the poll and its creator as the caller.
C7_OnlyCreatorCloses ==
    [][/\ \A s \in Addr, p \in PollIds :
            (closePoll(s, p) /\ Exists(p) /\ polls[p].isActive
                /\ s # polls[p].creator) =>
                /\ last'.err = "Only creator can close poll"
                /\ polls'[p].isActive
       /\ \A p \in PollIds :
            (polls[p].isActive /\ ~polls'[p].isActive) =>
                /\ last' = Receipt("closePoll", "")
                /\ events' = Append(events, PollClosed(p, polls[p].creator))
                /\ closePoll(polls[p].creator, p)]_vars

\* A closePoll has just been rejected as coming from a non-creator while every
\* poll is still active and one of them holds a response.
C7_Witness ==
    /\ last = Receipt("closePoll", "Only creator can close poll")
    /\ pollCounter = MaxPolls
    /\ \A p \in PollIds : Exists(p) => polls[p].isActive
    /\ \E p \in PollIds : Len(pollResponses[p]) > 0

\* The failure submitResponse must report: that of the first violated
\* precondition in the order exists, active, not expired, not duplicate,
\* payload well-formed.
FirstViolated(s, p, h, pr) ==
    IF ~Exists(p) THEN "Poll does not exist"
    ELSE IF ~polls[p].isActive THEN "Poll is not active"
    ELSE IF timestamp > polls[p].endTime THEN "Poll has ended"
    ELSE IF hasResponded[p][s] THEN "You have already responded to this poll"
    ELSE IF pr = "" THEN "Invalid input proof"
    ELSE ""

\* C8: every submitResponse call reports the failure of the first violated
\* precondition in the order exists, active, not expired, not duplicate,
\* payload well-formed, and succeeds when none is violated: no step is a
\* submitResponse call whose outcome differs from FirstViolated.
C8_SubmitCheckOrder ==
    [][last'.op = "submitResponse" =>
          \A s \in Addr, p \in PollIds, h \in Handles, pr \in Proofs :
              (last'.err # FirstViolated(s, p, h, pr)) =>
                  ~submitResponse(s, p, h, pr)]_vars

\* A submit was rejected as "not active" while every closed poll is also
\* expired and already holds a response of every identity.
C8_Witness ==
    /\ last = Receipt("submitResponse", "Poll is not active")
    /\ \A p \in PollIds :
          (Exists(p) /\ ~polls[p].isActive) =>
              /\ timestamp > polls[p].endTime
              /\ \A r \in Addr : hasResponded[p][r]

\* C9: a submitResponse with a well-formed payload by an identity that has
\* not responded succeeds exactly when the poll exists, is active and
\* block.timestamp <= endTime; on an active poll past its endTime it fails
\* with "Poll has ended".
C9_OpenIffActiveAndUnexpired ==
    [][\A s \in Addr, p \in PollIds, h \in Handles, pr \in Proofs :
          (last'.op = "submitResponse" /\ pr # "" /\ ~hasResponded[p][s]
              /\ submitResponse(s, p, h, pr)) =>
              /\ last'.err = "" <=>
                    (Exists(p) /\ polls[p].isActive
                        /\ timestamp <= polls[p].endTime)
              /\ (Exists(p) /\ polls[p].isActive
                    /\ timestamp > polls[p].endTime) =>
                        last'.err = "Poll has ended"]_vars

\* A response was accepted at the boundary instant block.timestamp = endTime.
C9_Witness ==
    \E p \in PollIds : \E i \in 1..Len(pollResponses[p]) :
        /\ pollResponses[p][i].submittedAt = polls[p].endTime
        /\ polls[p].createdAt < polls[p].endTime

\* C10: once closePoll(p) has succeeded, every submitResponse to p fails with
\* "Poll is not active", and the response list and responseCount of p are the
\* same after every step.
C10_NoResponseAfterClose ==
    [][\A p \in PollIds :
          WasClosed(p) =>
              /\ pollResponses'[p] = pollResponses[p]
              /\ polls'[p].responseCount = polls[p].responseCount
              /\ \A s \in Addr, h \in Handles, pr \in Proofs :
                    submitResponse(s, p, h, pr) =>
                        last'.err = "Poll is not active"]_vars

\* A submit to the only existing poll, closed by its creator, was rejected.
C10_Witness ==
    /\ last = Receipt("submitResponse", "Poll is not active")
    /\ pollCounter = 1
    /\ WasClosed(0)
    /\ Len(pollResponses[0]) = 1

\* The poll is open for responses: it is active and not past its endTime.
IsOpen(p) == Exists(p) /\ polls[p].isActive /\ timestamp <= polls[p].endTime

\* C11: once a response of an identity to a poll is stored, every later
\* submitResponse of that identity to that poll fails and leaves the poll
\* record, the response lists, the membership flags and the responded index
\* unchanged; while the poll is open the failure is "You have already
\* responded to this poll".
C11_RepeatedSubmitFails ==
    [][\A s \in Addr, p \in PollIds, h \in Handles, pr \in Proofs :
          (last'.op = "submitResponse" /\ ResponsesBy(p, s) >= 1
              /\ submitResponse(s, p, h, pr)) =>
              /\ last'.err # ""
              /\ UNCHANGED <<polls, pollResponses, hasResponded, userResponses>>
              /\ IsOpen(p) =>
                    last'.err = "You have already responded to this poll"]_vars

\* The only poll is open and holds one response, and a second submit of its
\* respondent has just been rejected as a duplicate.
C11_Witness ==
    /\ last = Receipt("submitResponse", "You have already responded to this poll")
    /\ pollCounter = 1
    /\ IsOpen(0)
    /\ polls[0].responseCount = 1
    /\ Len(pollResponses[0]) = 1

Limits == 0..MaxLimit

\* The ids of the polls that are open for responses.
OpenPolls == {p \in PollIds : IsOpen(p)}

Min(a, b) == IF a < b THEN a ELSE b

\* C12: in every reachable state and for every limit, getActivePolls(limit)
\* holds only ids of created polls that are active and whose endTime is not
\* earlier than block.timestamp.
C12_ListedPollsAreOpen ==
    \A limit \in Limits :
        LET result == getActivePolls(limit)
        IN  \A k \in 1..Len(result) :
                /\ result[k] \in PollIds
                /\ result[k] < pollCounter
                /\ Exists(result[k])
                /\ polls[result[k]].isActive
                /\ ~(polls[result[k]].endTime < timestamp)

\* Two polls exist, the newer one closed or expired and the older one open,
\* and the listing is not empty.
C12_Witness ==
    /\ pollCounter = 2
    /\ ~IsOpen(1) /\ IsOpen(0)
    /\ Len(getActivePolls(MaxLimit)) = 1
    /\ Len(getActivePolls(0)) = 0

\* C13: getActivePolls(limit) is the min(limit, k) highest open poll ids in
\* strictly decreasing order, k being the number of open polls.
C13_NewestOpenFirst ==
    \A limit \in Limits :
        LET result == getActivePolls(limit)
            listed == {result[k] : k \in 1..Len(result)}
        IN  /\ Len(result) = Min(limit, Cardinality(OpenPolls))
            /\ \A k \in 1..Len(result) - 1 : result[k] > result[k + 1]
            /\ listed \subseteq OpenPolls
            /\ \A p \in OpenPolls \ listed : \A q \in listed : p < q

\* Every poll the bound allows is open; a limit below their number gives the
\* newest ones only and a limit of 0 or above their number is handled too.
C13_Witness ==
    /\ pollCounter = MaxPolls
    /\ \A p \in 0..MaxPolls - 1 : IsOpen(p)
    /\ getActivePolls(MaxPolls - 1) = [k \in 1..MaxPolls - 1 |-> MaxPolls - k]
    /\ getActivePolls(MaxLimit) = [k \in 1..MaxPolls |-> MaxPolls - k]
    /\ getActivePolls(0) = <<>>

\* The failures of createPoll: the ValidationError of the specification.
ValidationErrors ==
    {"Question cannot be empty", "Min value must be less than max value",
     "End time must be in the future"}

\* C14: createPoll with an empty question, with minValue >= maxValue or with
\* endTime <= block.timestamp fails with a validation failure, writes no poll,
\* leaves pollCounter and userPolls unchanged and emits no event: a createPoll
\* step that is anything else is not a call with such arguments.
C14_InvalidCreateFails ==
    [][(/\ last'.op = "createPoll"
        /\ ~(/\ last'.err \in ValidationErrors
             /\ UNCHANGED <<polls, pollCounter, userPolls, events>>)) =>
          \A s \in Addr, q \in Questions, mn \in Values, mx \in Values,
             et \in Times :
              (q = "" \/ mn >= mx \/ et <= timestamp) =>
                  ~createPoll(s, q, mn, mx, et)]_vars

\* A createPoll was rejected for its endTime in the last block explored, where
\* every endTime offered is equal to block.timestamp or in the past.
C14_Witness ==
    /\ last = Receipt("createPoll", "End time must be in the future")
    /\ timestamp = MaxTime
    /\ pollCounter = 1

\* C15: every step that ends in a failed createPoll, submitResponse or
\* closePoll leaves polls, the response lists, the membership flags, both
\* reverse indexes, pollCounter, the grants and the event log unchanged.
C15_FailedCallChangesNothing ==
    [][last'.err # "" =>
          /\ polls' = polls
          /\ pollResponses' = pollResponses
          /\ hasResponded' = hasResponded
          /\ userPolls' = userPolls
          /\ userResponses' = userResponses
          /\ pollCounter' = pollCounter
          /\ allowed' = allowed
          /\ events' = events]_vars

\* A submit whose first four checks passed was rejected for its payload, in a
\* state that already holds a poll with a response and a grant.
C15_Witness ==
    /\ last = Receipt("submitResponse", "Invalid input proof")
    /\ pollCounter = 1
    /\ Len(pollResponses[0]) = 1
    /\ allowed # {}
    /\ Len(events) = 2

\* The PollCreated events of a log, in log order.
CreatedEvents(log) == SelectSeq(log, LAMBDA e : e.name = "PollCreated")

\* C16: pollCounter never decreases, and every successful createPoll takes
\* the id equal to the number of polls created before it (0 for the first,
\* the previous id plus one afterwards), writes the poll under that id, which
\* held no poll, and leaves pollCounter at that id plus one.
C16_IdsAreSequential ==
    [][/\ pollCounter' >= pollCounter
       /\ (last'.op = "createPoll" /\ last'.err = "" /\ events' # events) =>
            LET created == events'[Len(events')]
            IN  /\ created.name = "PollCreated"
                /\ created.pollId = Len(CreatedEvents(events))
                /\ created.pollId = pollCounter
                /\ pollCounter' = created.pollId + 1
                /\ ~Exists(created.pollId)
                /\ polls'[created.pollId].creator = created.who
                /\ \A k \in 1..Len(events) :
                      events[k].name = "PollCreated" =>
                          events[k].pollId < created.pollId]_vars

\* Two different callers have each created a poll, one after the other.
C16_Witness ==
    /\ last = Receipt("createPoll", "")
    /\ pollCounter = 2
    /\ polls[0].creator # polls[1].creator
    /\ Len(CreatedEvents(events)) = 2
    /\ events[Len(events)].pollId = 1

\* Number of successful submitResponse calls of r to p recorded in a log.
Accepted(log, p, r) ==
    Cardinality({k \in 1..Len(log) : log[k] = ResponseSubmitted(p, r)})

\* C17: calls execute one at a time, so two submitResponse calls of one
\* identity to one poll run in one order or the other: at most one of them is
\* ever accepted, and the one that runs second, the poll still being open,
\* fails with "You have already responded to this poll".
C17_OneOfTwoSubmitsWins ==
    [][/\ \A p \in PollIds, r \in Addr : Accepted(events', p, r) <= 1
       /\ (/\ last'.op = "submitResponse"
           /\ last'.err # "You have already responded to this poll") =>
            \A s \in Addr, p \in PollIds, h \in Handles, pr \in Proofs :
                (Accepted(events, p, s) = 1 /\ IsOpen(p)) =>
                    ~submitResponse(s, p, h, pr)]_vars

\* The second of two submits was rejected in the block in which the first was
\* accepted, on the only poll, which is still open.
C17_Witness ==
    /\ last = Receipt("submitResponse", "You have already responded to this poll")
    /\ pollCounter = 1
    /\ IsOpen(0)
    /\ events[Len(events)].name = "ResponseSubmitted"
    /\ pollResponses[0][Len(pollResponses[0])].submittedAt = timestamp

\* Number of entries of a log with the given name and poll id.
Entries(log, name, p) ==
    Cardinality({k \in 1..Len(log) : log[k].name = name /\ log[k].pollId = p})

\* The log agrees with the storage: one PollCreated per created poll, one
\* ResponseSubmitted per stored response, naming its respondent, and one
\* PollClosed, naming the creator, exactly for the closed polls.
LogMatchesStorage(log, ps, responses, counter) ==
    /\ Len(CreatedEvents(log)) = counter
    /\ \A p \in PollIds :
          /\ Entries(log, "PollCreated", p) = (IF p < counter THEN 1 ELSE 0)
          /\ Entries(log, "ResponseSubmitted", p) = ps[p].responseCount
          /\ \A r \in Addr :
                Accepted(log, p, r) =
                    Cardinality({i \in 1..Len(responses[p]) :
                                    responses[p][i].respondent = r})
          /\ Entries(log, "PollClosed", p) =
                (IF ps[p].creator # ZeroAddress /\ ~ps[p].isActive
                 THEN 1 ELSE 0)
          /\ \A k \in 1..Len(log) :
                (log[k].name = "PollClosed" /\ log[k].pollId = p) =>
                    log[k].who = ps[p].creator

\* C18: the event log only grows, by one entry per successful createPoll,
\* submitResponse or closePoll and by none for a failed call, and after every
\* step it holds pollCounter PollCreated entries, responseCount of p
\* ResponseSubmitted entries for every poll p, and one PollClosed entry for p
\* exactly when p is closed.
C18_LogMatchesMutations ==
    [][/\ \/ events' = events
          \/ /\ Len(events') = Len(events) + 1
             /\ SubSeq(events', 1, Len(events)) = events
             /\ last'.err = ""
       /\ last'.err # "" => events' = events
       /\ (polls' # polls \/ pollResponses' # pollResponses
              \/ hasResponded' # hasResponded \/ pollCounter' # pollCounter) =>
            Len(events') = Len(events) + 1
       /\ storage' # storage =>
            LogMatchesStorage(events', polls', pollResponses', pollCounter')]_vars

\* The log holds a creation, a response and a close of one poll, and a call
\* has failed since.
C18_Witness ==
    /\ Len(events) = 3
    /\ events[1].name = "PollCreated"
    /\ events[2].name = "ResponseSubmitted"
    /\ events[3].name = "PollClosed"
    /\ last.err # ""

\* C19: a successful submitResponse of r to p adds to the grants exactly the
\* pairs of the stored handle with r and with the creator of p; a failed call
\* adds none; no grant is ever withdrawn.
C19_GrantsFollowAcceptance ==
    [][/\ allowed \subseteq allowed'
       /\ last'.err # "" => allowed' = allowed
       /\ (last'.op = "submitResponse" /\ last'.err = ""
              /\ events' # events) =>
            LET submitted == events'[Len(events')]
                p == submitted.pollId
                stored == pollResponses'[p][Len(pollResponses'[p])]
            IN  /\ submitted.name = "ResponseSubmitted"
                /\ stored.respondent = submitted.who
                /\ <<stored.encryptedValue, submitted.who>> \in allowed'
                /\ <<stored.encryptedValue, polls[p].creator>> \in allowed'
                /\ allowed' = allowed \cup
                        {<<stored.encryptedValue, submitted.who>>,
                         <<stored.encryptedValue, polls[p].creator>>}]_vars

\* The first response was accepted while no grant existed, and its handle is
\* now granted to the respondent and to the creator, who is someone else.
C19_Witness ==
    /\ last = Receipt("submitResponse", "")
    /\ Len(events) = 2
    /\ Len(pollResponses[0]) = 1
    /\ pollResponses[0][1].respondent # polls[0].creator
    /\ allowed = {<<pollResponses[0][1].encryptedValue,
                    pollResponses[0][1].respondent>>,
                  <<pollResponses[0][1].encryptedValue, polls[0].creator>>}

\* C20: the creator of a poll is not allowed to decrypt the handle of a
\* response that another identity submitted to the poll.
C20_CreatorCannotDecrypt ==
    \A p \in PollIds : \A i \in 1..Len(pollResponses[p]) :
        pollResponses[p][i].respondent # polls[p].creator =>
            <<pollResponses[p][i].encryptedValue, polls[p].creator>>
                \notin allowed

\* The <<poll id, value>> pairs the page renders as "Your response" for
\* the connected account, in the BROWSE list and in the MY_RESPONSES list.
YourResponses ==
    {<<activePolls[i].id, activePolls[i].myResponse>> :
        i \in {j \in 1..Len(activePolls) :
                  /\ activePolls[j].hasResponded
                  /\ activePolls[j].myResponse # Undefined}}
    \cup
    {<<myResponses[i].id, myResponses[i].myResponse>> :
        i \in {j \in 1..Len(myResponses) :
                  myResponses[j].myResponse # Undefined}}

\* The plaintexts of the responses of an account stored for a poll.
SubmittedBy(account, p) ==
    {Decrypt(pollResponses[p][i].encryptedValue) :
        i \in {j \in 1..Len(pollResponses[p]) :
                  pollResponses[p][j].respondent = account}}

\* C21: every "Your response" value the client shows to the connected
\* account for a poll is a value this account submitted to that poll.
C21_ShownResponseIsOwn ==
    \A shown \in YourResponses : shown[2] \in SubmittedBy(address, shown[1])

\* The poll ids of the ResponseSubmitted entries of a log that name the
\* respondent r, in log order: the polls r has an accepted response to, in
\* the order of acceptance.
AcceptedOrder(log, r) ==
    LET own == SelectSeq(log,
                   LAMBDA e : e.name = "ResponseSubmitted" /\ e.who = r)
    IN  [i \in 1..Len(own) |-> own[i].pollId]

\* C22: in every reachable state getUserResponses(r) holds exactly the ids of
\* the polls that store a response of r, each once, in the order in which
\* the responses were accepted; it is empty for an identity that never
\* responded.
C22_RespondedIndexInOrder ==
    \A r \in Addr :
        LET list == getUserResponses(r)
        IN  /\ list = AcceptedOrder(events, r)
            /\ {list[i] : i \in 1..Len(list)} =
                    {p \in PollIds : ResponsesBy(p, r) >= 1}
            /\ \A i \in 1..Len(list), j \in 1..Len(list) :
                    list[i] = list[j] => i = j
            /\ (\A p \in PollIds : ResponsesBy(p, r) = 0) => list = <<>>

\* One identity has responded to poll 1 first and to poll 0 afterwards, and
\* another identity has never responded.
C22_Witness ==
    \E r1 \in Addr, r2 \in Addr :
        /\ getUserResponses(r1) = <<1, 0>>
        /\ getUserResponses(r2) = <<>>
        /\ last = Receipt("submitResponse", "")

\* The ids of the polls whose PollCreated entry in a log names the creator c,
\* in log order.
CreatedOrder(log, c) ==
    LET own == SelectSeq(log, LAMBDA e : e.name = "PollCreated" /\ e.who = c)
    IN  [i \in 1..Len(own) |-> own[i].pollId]

\* C23: in every reachable state every created poll id is in exactly one
\* place of the getUserPolls lists, in the list of its creator; every list
\* holds created ids only, in creation order, which is strictly increasing;
\* the list of an identity that never created a poll is empty.
C23_CreatedIndexInOrder ==
    /\ \A p \in PollIds :
          Exists(p) =>
              \A c \in Addr :
                  Cardinality({i \in 1..Len(getUserPolls(c)) :
                                  getUserPolls(c)[i] = p}) =
                      (IF c = polls[p].creator THEN 1 ELSE 0)
    /\ \A c \in Addr :
          LET list == getUserPolls(c)
          IN  /\ list = CreatedOrder(events, c)
              /\ \A i \in 1..Len(list) :
                    list[i] \in PollIds /\ Exists(list[i])
              /\ \A i \in 1..Len(list) - 1 : list[i] < list[i + 1]
              /\ (\A p \in PollIds : polls[p].creator # c) => list = <<>>

\* One identity has created two polls and another identity none.
C23_Witness ==
    \E c1 \in Addr, c2 \in Addr :
        /\ getUserPolls(c1) = <<0, 1>>
        /\ getUserPolls(c2) = <<>>
        /\ last = Receipt("createPoll", "")

\* C24: for a poll id that was never created getPoll and getPollResponses
\* fail with "Poll does not exist", and checkIfResponded returns false for
\* every identity.
C24_UnknownPollReads ==
    \A p \in PollIds :
        ~Exists(p) =>
            /\ getPoll(p) = Reverted("Poll does not exist")
            /\ getPollResponses(p) = Reverted("Poll does not exist")
            /\ \A r \in Addr : checkIfResponded(p, r) = FALSE

\* getPollResponses has just failed for an unknown id while the only poll
\* created holds a response, which getPollResponses returns.
C24_Witness ==
    /\ last = Receipt("getPollResponses", "Poll does not exist")
    /\ pollCounter = 1
    /\ getPollResponses(0).err = ""
    /\ Len(getPollResponses(0).value) = 1
    /\ \E r \in Addr : checkIfResponded(0, r)

\* The names of the external view functions.
ViewOps ==
    {"getPoll", "getPollResponses", "getResponseCount", "getActivePolls",
     "getUserPolls", "getUserResponses", "checkIfResponded"}

\* C25: a call of getPoll, getPollResponses, getResponseCount,
\* getActivePolls, getUserPolls, getUserResponses or checkIfResponded,
\* returning or failing, leaves every state variable of the contract, the
\* grants, the event log and block.timestamp unchanged; the outcome of a
\* createPoll, submitResponse or closePoll call, which is computed from these
\* variables and the call's arguments alone, is therefore the same before
\* and after any number of such calls.
C25_ViewsChangeNothing ==
    [][(last'.op \in ViewOps /\ QueryStep) =>
          /\ polls' = polls
          /\ pollResponses' = pollResponses
          /\ hasResponded' = hasResponded
          /\ userPolls' = userPolls
          /\ userResponses' = userResponses
          /\ pollCounter' = pollCounter
          /\ events' = events
          /\ allowed' = allowed
          /\ timestamp' = timestamp]_vars

\* getPoll has returned in a state reached by as many successful mutating
\* calls as the bound allows, view calls between them, in which
\* getPollResponses still fails for an id.
C25_Witness ==
    /\ last = Receipt("getPoll", "")
    /\ Len(events) = MaxEvents
    /\ \E p \in PollIds : getPollResponses(p).err # ""

\* C26: for every created poll creator, question, minValue, maxValue,
\* endTime and createdAt are the same after every step and the poll still
\* exists; responseCount changes only by a successful submitResponse to the
\* poll, by one, and isActive only by a successful closePoll of the poll.
C26_OnlyCountAndActiveChange ==
    [][\A p \in PollIds :
          Exists(p) =>
              /\ Exists(p)'
              /\ polls'[p].creator = polls[p].creator
              /\ polls'[p].question = polls[p].question
              /\ polls'[p].minValue = polls[p].minValue
              /\ polls'[p].maxValue = polls[p].maxValue
              /\ polls'[p].endTime = polls[p].endTime
              /\ polls'[p].createdAt = polls[p].createdAt
              /\ polls'[p].responseCount # polls[p].responseCount =>
                    /\ last' = Receipt("submitResponse", "")
                    /\ polls'[p].responseCount = polls[p].responseCount + 1
                    /\ Len(events') = Len(events) + 1
                    /\ events'[Len(events')].name = "ResponseSubmitted"
                    /\ events'[Len(events')].pollId = p
                    /\ polls'[p].isActive = polls[p].isActive
              /\ polls'[p].isActive # polls[p].isActive =>
                    /\ last' = Receipt("closePoll", "")
                    /\ events' = Append(events, PollClosed(p, polls[p].creator))
                    /\ polls'[p].responseCount = polls[p].responseCount]_vars

\* A poll that received a response was closed, and later another poll was
\* created.
C26_Witness ==
    /\ last = Receipt("createPoll", "")
    /\ pollCounter = 2
    /\ polls[0].responseCount = 1
    /\ ~polls[0].isActive
    /\ polls[0].createdAt < timestamp
    /\ events[Len(events)].name = "PollCreated"

\* The sequence a is an initial part of the sequence b.
IsPrefix(a, b) == Len(a) <= Len(b) /\ SubSeq(b, 1, Len(a)) = a

\* C27: after every step the response list of every poll begins with the
\* list it was before the step, so no stored response is changed or
\* removed; an accepted response is the new last entry, and the entries are
\* in the order of their submission times.
C27_ResponsesAppendOnly ==
    [][\A p \in PollIds :
          /\ IsPrefix(pollResponses[p], pollResponses'[p])
          /\ Len(pollResponses'[p]) <= Len(pollResponses[p]) + 1
          /\ pollResponses'[p] # pollResponses[p] =>
                /\ last' = Receipt("submitResponse", "")
                /\ pollResponses'[p][Len(pollResponses'[p])].submittedAt =
                       timestamp
          /\ \A i \in 1..Len(pollResponses'[p]) - 1 :
                pollResponses'[p][i].submittedAt <=
                    pollResponses'[p][i + 1].submittedAt]_vars

\* A poll holds two responses of different identities, the second one
\* accepted in a later block than the first.
C27_Witness ==
    \E p \in PollIds :
        /\ getPollResponses(p).err = ""
        /\ Len(getPollResponses(p).value) = 2
        /\ pollResponses[p][1].submittedAt < pollResponses[p][2].submittedAt
        /\ pollResponses[p][1].respondent # pollResponses[p][2].respondent
        /\ last = Receipt("submitResponse", "")

\* C28: closePoll called by the creator of a poll whose isActive is true
\* succeeds and leaves the poll inactive, whatever block.timestamp is
\* relative to endTime and however many responses the poll holds.
C28_CreatorClosesAnyTime ==
    [][\A s \in Addr, p \in PollIds :
          (/\ last'.op = "closePoll"
           /\ Exists(p) /\ polls[p].isActive /\ s = polls[p].creator
           /\ closePoll(s, p)) =>
              /\ last'.err = ""
              /\ ~polls'[p].isActive
              /\ events' = Append(events, PollClosed(p, s))]_vars

\* The creator has just closed a poll past its endTime that holds a
\* response of every identity.
C28_Witness ==
    /\ last = Receipt("closePoll", "")
    /\ events[Len(events)].name = "PollClosed"
    /\ LET p == events[Len(events)].pollId
       IN  /\ timestamp > polls[p].endTime
           /\ polls[p].responseCount = NumAddr
           /\ ~polls[p].isActive

\* A response list without its payloads.
Blind(responses) ==
    [i \in 1..Len(responses) |->
        [respondent |-> responses[i].respondent,
         submittedAt |-> responses[i].submittedAt]]

\* C29: the outcome of a submitResponse call with a well-formed payload is
\* the outcome the call has with any other well-formed payload, and the state
\* after an accepted call differs between two payloads only in the payload
\* stored and granted: the poll record, the flags, the responded index and
\* the event log are written without the payload, and the response list is
\* the same with the payloads left out.
C29_PayloadNotInterpreted ==
    [][last'.op = "submitResponse" =>
          \A s \in Addr, p \in PollIds, h \in Handles :
              submitResponse(s, p, h, "zkpok") =>
                  \A other \in Handles :
                      /\ last'.err = SubmitError(s, p, other, "zkpok")
                      /\ last'.err = "" =>
                            /\ Blind(pollResponses'[p]) =
                                  Blind(PushResponse(pollResponses[p], s,
                                                     other))
                            /\ pollResponses'[p][Len(pollResponses'[p])]
                                  .encryptedValue = h
                            /\ {g[2] : g \in allowed' \ allowed} \subseteq
                                  {g[2] : g \in FHEallow(
                                      FHEallow({}, other, s), other,
                                      polls[p].creator)}
                            /\ \A g \in allowed' \ allowed : g[1] = h
                            /\ polls' = [polls EXCEPT ![p] = IncrementCount(@)]
                            /\ hasResponded' = [hasResponded EXCEPT ![p] =
                                  MarkResponded(@, s)]
                            /\ userResponses' = [userResponses EXCEPT ![s] =
                                  IndexResponse(@, p)]
                            /\ events' = Append(events,
                                              ResponseSubmitted(p, s))
                            /\ UNCHANGED <<userPolls, pollCounter,
                                           timestamp>>]_vars

\* A poll holds two accepted responses with different payloads, one of them
\* a number above the maxValue of the poll when read as one.
C29_Witness ==
    \E p \in PollIds :
        /\ last = Receipt("submitResponse", "")
        /\ Len(pollResponses[p]) = 2
        /\ pollResponses[p][1].encryptedValue #
              pollResponses[p][2].encryptedValue
        /\ \E i \in 1..2 :
              pollResponses[p][i].encryptedValue > polls[p].maxValue

\* C30: after every step every stored poll has a non-empty question,
\* minValue < maxValue and endTime > createdAt; and the poll a successful
\* createPoll call stores has responseCount 0, isActive true, createdAt equal
\* to block.timestamp of the call, the caller as creator and the arguments of
\* the call as question, range and endTime.
C30_StoredPollsAreValid ==
    [][/\ \A p \in PollIds :
            Exists(p)' =>
                /\ Len(polls'[p].question) > 0
                /\ polls'[p].minValue < polls'[p].maxValue
                /\ polls'[p].endTime > polls'[p].createdAt
       /\ \A p \in PollIds :
            (~Exists(p) /\ Exists(p)') =>
                /\ last' = Receipt("createPoll", "")
                /\ polls'[p].responseCount = 0
                /\ polls'[p].isActive
                /\ polls'[p].createdAt = timestamp
                /\ pollResponses'[p] = <<>>
       /\ (last'.op = "createPoll" /\ last'.err = "" /\ events' # events) =>
            \A s \in Addr, q \in Questions, mn \in Values, mx \in Values,
               et \in Times :
                createPoll(s, q, mn, mx, et) =>
                    polls'[pollCounter] =
                        [creator |-> s, question |-> q, minValue |-> mn,
                         maxValue |-> mx, endTime |-> et,
                         createdAt |-> timestamp, responseCount |-> 0,
                         isActive |-> TRUE]]_vars

\* A poll has just been created in a later block than the first poll, which
\* meanwhile received a response and was closed.
C30_Witness ==
    /\ last = Receipt("createPoll", "")
    /\ pollCounter = 2
    /\ polls[1].createdAt = timestamp
    /\ polls[1].createdAt > polls[0].createdAt
    /\ polls[1].responseCount = 0 /\ polls[1].isActive
    /\ polls[0].responseCount = 1 /\ ~polls[0].isActive
    /\ polls[1].creator # polls[0].creator

\* C31: a successful closePoll(p) sets isActive of p to false, changes no
\* other field of p and no other poll, appends one PollClosed entry to the
\* log and leaves the response lists, the membership flags, both reverse
\* indexes, pollCounter and the grants unchanged.
C31_CloseChangesOnlyActive ==
    [][(last'.op = "closePoll" /\ last'.err = "" /\ events' # events) =>
          \A s \in Addr, p \in PollIds :
              closePoll(s, p) =>
                  /\ ~polls'[p].isActive
                  /\ polls'[p] = [polls[p] EXCEPT !.isActive = FALSE]
                  /\ polls'[p].responseCount = polls[p].responseCount
                  /\ \A q \in PollIds \ {p} : polls'[q] = polls[q]
                  /\ events' = Append(events, PollClosed(p, s))
                  /\ pollResponses' = pollResponses
                  /\ hasResponded' = hasResponded
                  /\ userPolls' = userPolls
                  /\ userResponses' = userResponses
                  /\ pollCounter' = pollCounter
                  /\ allowed' = allowed]_vars

\* A poll that holds a response and a grant has just been closed while
\* another poll is still active.
C31_Witness ==
    /\ last = Receipt("closePoll", "")
    /\ events[Len(events)].name = "PollClosed"
    /\ pollCounter = 2
    /\ polls[events[Len(events)].pollId].responseCount = 1
    /\ \E p \in {0, 1} : polls[p].isActive
    /\ allowed # {}

\* C32: with block.timestamp never decreasing, a created poll that is not
\* open for responses (isActive false or block.timestamp > endTime) is not
\* open after any step, and its response list and responseCount stay as they
\* are; a submit rejected with "Poll is not active" or "Poll has ended"
\* leaves the poll not open, so no later submit to it is accepted.
C32_OpennessIsMonotone ==
    [][/\ timestamp' >= timestamp
       /\ \A p \in PollIds :
            (Exists(p) /\ ~IsOpen(p)) =>
                /\ ~IsOpen(p)'
                /\ polls'[p].responseCount = polls[p].responseCount
                /\ pollResponses'[p] = pollResponses[p]
       /\ (/\ last'.op = "submitResponse"
           /\ last'.err \in {"Poll is not active", "Poll has ended"}) =>
            \A s \in Addr, p \in PollIds, h \in Handles, pr \in Proofs :
                submitResponse(s, p, h, pr) => (Exists(p) /\ ~IsOpen(p))'
       /\ (last'.op = "submitResponse" /\ last'.err = "") =>
            \A s \in Addr, p \in PollIds, h \in Handles, pr \in Proofs :
                submitResponse(s, p, h, pr) => IsOpen(p)]_vars

\* A submit to a poll past its endTime was rejected as expired, the poll
\* still being active, and one to a closed poll was rejected before that.
C32_Witness ==
    /\ last = Receipt("submitResponse", "Poll has ended")
    /\ pollCounter = 2
    /\ \E p \in {0, 1} : polls[p].isActive /\ timestamp > polls[p].endTime
    /\ \E p \in {0, 1} : WasClosed(p) /\ timestamp <= polls[p].endTime

\* The places of a log that hold an entry with the given name and poll id.
Places(log, name, p) ==
    {k \in 1..Len(log) : log[k].name = name /\ log[k].pollId = p}

\* C33: in the event log of every reachable state, every ResponseSubmitted
\* and PollClosed entry of a poll comes after the PollCreated entry of that
\* poll, no ResponseSubmitted entry of a poll comes after its PollClosed
\* entry, and the PollCreated entries are in strictly increasing pollId
\* order.
C33_LogOrder ==
    /\ \A p \in PollIds :
          /\ \A k \in Places(events, "ResponseSubmitted", p)
                        \cup Places(events, "PollClosed", p) :
                \E c \in Places(events, "PollCreated", p) : c < k
          /\ \A c \in Places(events, "PollCreated", p) :
                \A k \in Places(events, "ResponseSubmitted", p)
                            \cup Places(events, "PollClosed", p) : c < k
          /\ \A k \in Places(events, "ResponseSubmitted", p) :
                \A c \in Places(events, "PollClosed", p) : k < c
    /\ \A i \in 1..Len(events), j \in 1..Len(events) :
          (/\ i < j
           /\ events[i].name = "PollCreated"
           /\ events[j].name = "PollCreated") =>
              events[i].pollId < events[j].pollId

\* The log holds the creation of poll 0, a response to it, the creation of
\* poll 1 and the close of poll 0, in this order.
C33_Witness ==
    /\ Len(events) = 4
    /\ events[1].name = "PollCreated" /\ events[1].pollId = 0
    /\ events[2].name = "ResponseSubmitted" /\ events[2].pollId = 0
    /\ events[3].name = "PollCreated" /\ events[3].pollId = 1
    /\ events[4].name = "PollClosed" /\ events[4].pollId = 0

\* C34: in every reachable state the polls with a non-zero creator are
\* exactly the ids below pollCounter, and for every id from pollCounter on
\* the response list is empty, every membership flag is false and the id is
\* in no reverse index.
C34_ExistingIdsAreBelowCounter ==
    /\ {p \in PollIds : polls[p].creator # ZeroAddress} =
          {p \in PollIds : p < pollCounter}
    /\ \A p \in PollIds :
          p >= pollCounter =>
              /\ polls[p] = EmptyPoll
              /\ pollResponses[p] = <<>>
              /\ \A r \in Addr : ~hasResponded[p][r]
    /\ \A a \in Addr :
          /\ \A i \in 1..Len(userPolls[a]) : userPolls[a][i] < pollCounter
          /\ \A i \in 1..Len(userResponses[a]) :
                userResponses[a][i] < pollCounter

\* One poll exists and holds a response, and a submit to the next id has
\* just been rejected because that poll does not exist.
C34_Witness ==
    /\ last = Receipt("submitResponse", "Poll does not exist")
    /\ pollCounter = 1
    /\ Len(pollResponses[0]) = 1
    /\ \E a \in Addr : userPolls[a] = <<0>>
    /\ \E a \in Addr : userResponses[a] = <<0>>

\* C35: in every reachable state every stored response of a poll has its
\* submittedAt between createdAt and endTime of the poll, both included, and
\* submittedAt does not decrease along the response list.
C35_SubmittedWithinLifetime ==
    \A p \in PollIds :
        /\ \A i \in 1..Len(pollResponses[p]) :
              /\ polls[p].createdAt <= pollResponses[p][i].submittedAt
              /\ pollResponses[p][i].submittedAt <= polls[p].endTime
              /\ pollResponses[p][i].submittedAt <= timestamp
        /\ \A i \in 1..Len(pollResponses[p]), j \in 1..Len(pollResponses[p]) :
              i < j => pollResponses[p][i].submittedAt <=
                           pollResponses[p][j].submittedAt

\* A poll holds a response accepted in the block of its creation and one
\* accepted at its endTime, two blocks later.
C35_Witness ==
    \E p \in PollIds :
        /\ Len(pollResponses[p]) = 2
        /\ pollResponses[p][1].submittedAt = polls[p].createdAt
        /\ pollResponses[p][2].submittedAt = polls[p].endTime
        /\ polls[p].endTime = polls[p].createdAt + 2
        /\ timestamp = polls[p].endTime

\* C36: a submitResponse call of the creator of a poll has the outcome the
\* call of any identity with the same membership flag has, and when it is
\* accepted the response is stored with the creator as respondent, counted,
\* flagged and indexed like any other; a second call of the creator is
\* rejected as a duplicate while the poll is open.
C36_CreatorRespondsLikeAnyone ==
    [][last'.op = "submitResponse" =>
          \A p \in PollIds, h \in Handles, pr \in Proofs :
              (Exists(p) /\ submitResponse(polls[p].creator, p, h, pr)) =>
                  LET c == polls[p].creator
                  IN  /\ \A r \in Addr :
                            hasResponded[p][r] = hasResponded[p][c] =>
                                SubmitError(r, p, h, pr) = last'.err
                      /\ (IsOpen(p) /\ ~hasResponded[p][c] /\ pr # "") =>
                            last'.err = ""
                      /\ (IsOpen(p) /\ hasResponded[p][c]) =>
                            last'.err =
                                "You have already responded to this poll"
                      /\ last'.err = "" =>
                            /\ pollResponses'[p] = Append(pollResponses[p],
                                  EncryptedResponse(c, h, timestamp))
                            /\ polls'[p].responseCount =
                                  polls[p].responseCount + 1
                            /\ hasResponded'[p][c]
                            /\ userResponses'[c] = Append(userResponses[c], p)
                            /\ events' = Append(events,
                                              ResponseSubmitted(p, c))]_vars

\* The creator of a poll is a respondent in the response list of the poll,
\* next to another identity, and the creator's second submit has just been
\* rejected as a duplicate.
C36_Witness ==
    /\ last = Receipt("submitResponse",
                      "You have already responded to this poll")
    /\ \E p \in PollIds :
          /\ IsOpen(p)
          /\ Len(pollResponses[p]) = 2
          /\ polls[p].responseCount = 2
          /\ \E i \in 1..2 : pollResponses[p][i].respondent = polls[p].creator
          /\ \A r \in Addr : hasResponded[p][r]
          /\ p \in {userResponses[polls[p].creator][i] :
                      i \in 1..Len(userResponses[polls[p].creator])}

====
